---- MODULE Spec2Model ----
(***************************************************************************)
(* simple_tor: the SOCKS4 connection handler (src/src/connection.rs), the  *)
(* SOCKS4 codec (src/src/socks4.rs) and the accept loop (src/src/proxy.rs) *)
(* as state machines.                                                      *)
(*                                                                         *)
(* Spec      one ConnectionHandler::handle session, from construction to   *)
(*           the drop of both sockets, one step per awaited I/O call.      *)
(* SpecProxy TcpProxy::start with the sessions it spawns.                  *)
(***************************************************************************)
EXTENDS Integers, Sequences, FiniteSets, TLC

(***************************************************************************)
(* Bounds of the model.                                                    *)
(***************************************************************************)
MaxUserId == 2      \* longest user id a modelled client sends
MaxPayload == 2     \* bytes a modelled client sends after its request
MaxServerData == 2  \* bytes a modelled destination sends
MaxSessions == 2    \* connections the modelled listener accepts
MaxShort == 3       \* forward_data on its own: longest short source, and how far
                    \* below the most it can take a read or a failed write stops

(***************************************************************************)
(* Program constants.                                                      *)
(***************************************************************************)
SOCKS4_VERSION == 4
SOCKS4_CONNECT == 1
SOCKS4_BIND == 2
SOCKS4_REPLY_VERSION == 0
SOCKS4_REQUEST_GRANTED == 90
SOCKS4_REQUEST_REJECTED == 91
USERID_LIMIT == 256
BUFFER_SIZE == 4096

Min(a, b) == IF a < b THEN a ELSE b

Prefixes(s) == { SubSeq(s, 1, n) : n \in 0..Len(s) }

IsPrefix(p, s) == Len(p) <= Len(s) /\ SubSeq(s, 1, Len(p)) = p

Drop(s, n) == SubSeq(s, n + 1, Len(s))

(***************************************************************************)
(* Addresses.  std::net::SocketAddr is V4(ip, port) or V6(ip, port); the   *)
(* model keeps the family, the octets and the port.                        *)
(***************************************************************************)
V4(ip, port) == [fam |-> "V4", ip |-> ip, port |-> port]

V6(ip, port) == [fam |-> "V6", ip |-> ip, port |-> port]

NoAddr == [fam |-> "none", ip |-> <<>>, port |-> 0]

\* AsyncReadExt::read_u16 / AsyncWriteExt::write_u16 are big-endian.
U16FromBytes(b) == b[1] * 256 + b[2]

\* Mutant: the port goes out low byte first.
U16ToBytes_LittleEndian(p) == << p % 256, p \div 256 >>

U16ToBytes(p) == << p \div 256, p % 256 >>

(***************************************************************************)
(* Socks4Response (socks4.rs).                                             *)
(***************************************************************************)
NoResponse == [status |-> 0, dst_port |-> 0, dst_ip |-> <<>>]

Success(addr) ==
    [status |-> SOCKS4_REQUEST_GRANTED, dst_port |-> addr.port, dst_ip |-> addr.ip]

Failure ==
    [status |-> SOCKS4_REQUEST_REJECTED, dst_port |-> 0, dst_ip |-> <<0, 0, 0, 0>>]

\* Mutant: the match arms of try_from_socket_addr exchanged.
TryFromSocketAddr_Inverted(addr) ==
    IF addr.fam = "V6"
    THEN [ok |-> TRUE, val |-> Success(addr)]
    ELSE [ok |-> FALSE, val |-> NoResponse]

\* Result<Socks4Response>: [ok, val].
TryFromSocketAddr(addr) ==
    IF addr.fam = "V4"
    THEN [ok |-> TRUE, val |-> Success(addr)]
    ELSE [ok |-> FALSE, val |-> NoResponse]

\* The bytes write_to puts on the wire, field by field.
ResponseFields(r) ==
    << <<SOCKS4_REPLY_VERSION>>, <<r.status>>, U16ToBytes(r.dst_port), r.dst_ip >>

EncodeResponse(r) ==
    ResponseFields(r)[1] \o ResponseFields(r)[2] \o ResponseFields(r)[3]
        \o ResponseFields(r)[4]

(***************************************************************************)
(* Socks4Request (socks4.rs).                                              *)
(***************************************************************************)
NoRequest == [command |-> 0, dst_port |-> 0, dst_ip |-> <<>>, userid |-> <<>>]

\* Mutant: the destination is built as an IPv6 socket address.
DestinationAddr_V6(req) == V6(req.dst_ip, req.dst_port)

DestinationAddr(req) == V4(req.dst_ip, req.dst_port)

\* The wire form of a request, as a client builds it.
RequestBytes(version, command, port, ip, userid) ==
    <<version, command>> \o U16ToBytes(port) \o ip \o userid \o <<0>>

(***************************************************************************)
(* Inputs of the model.                                                    *)
(***************************************************************************)
Versions == {SOCKS4_VERSION, 5}

Commands == {SOCKS4_CONNECT, SOCKS4_BIND, 3}

Ports == {80}

Ips == { <<66, 102, 7, 99>> }

UserIds == { [i \in 1..n |-> 69 + i] : n \in 0..MaxUserId }

ClientPayloads == { [i \in 1..n |-> 100 + i] : n \in 0..MaxPayload }

ServerStreams == { [i \in 1..n |-> 200 + i] : n \in 0..MaxServerData }

\* User ids at the limit of read_from and one byte over it.
LongUserIds == { [i \in 1..n |-> 70] : n \in {USERID_LIMIT, USERID_LIMIT + 1} }

\* Everything a client of a SOCKS4 proxy may send before it closes its side:
\* a request and payload, or any prefix of it (the client closed mid-frame),
\* or a request with a long user id.
ClientStreams ==
    UNION { Prefixes(RequestBytes(v, c, p, ip, u) \o d) :
              v \in Versions, c \in Commands, p \in Ports, ip \in Ips,
              u \in UserIds, d \in ClientPayloads }
      \cup { RequestBytes(SOCKS4_VERSION, SOCKS4_CONNECT, p, ip, u) :
               p \in Ports, ip \in Ips, u \in LongUserIds }

\* What a client of a Direct proxy may send: payload, which may begin like a
\* request.
DirectClientStreams ==
    ClientPayloads
      \cup { <<SOCKS4_VERSION, SOCKS4_CONNECT>> \o d : d \in ClientPayloads }

DirectTargets == { V4(<<93, 184, 216, 34>>, 80), V6(<<1>>, 8080) }

\* ProxyMode (config.rs).
Direct(addr) == [kind |-> "Direct", addr |-> addr]

Socks4 == [kind |-> "Socks4", addr |-> NoAddr]

Modes == {Socks4} \cup { Direct(a) : a \in DirectTargets }

Dirs == {"c2s", "s2c"}

VARIABLES
    mode,            \* self.mode
    clientIn,        \* the bytes the client sends before closing its side
    clientPos,       \* how many of them the proxy has read
    clientOut,       \* the bytes the proxy has written to the client
    serverIn,        \* the bytes the proxy has written to the destination
    serverOut,       \* the bytes the destination sends before closing
    serverPos,       \* how many of them the proxy has read
    pc,              \* the await the session is suspended at
    version,         \* read_from: the version byte read
    request,         \* read_from: the request under construction
    reqConsumed,     \* bytes read_from has taken from the client stream
    target,          \* target_addr
    connected,       \* server_stream exists
    connectAttempts, \* calls of TcpStream::connect
    resp,            \* the Socks4Response being written
    after,           \* the call site write_to returns to
    responses,       \* calls of write_to
    frameLen,        \* bytes written to the client by write_to
    flushed,         \* write_to ran to its end, flush included
    fwd,             \* forward_data, per direction: [st, buf]
    fwdStarted,      \* forward_traffic was entered
    result,          \* what handle returned
    errlog,          \* error! lines logged
    clientOpen,      \* the session holds the client socket
    serverOpen,      \* the session holds the server socket
    config,          \* TcpProxy.config
    listener,        \* TcpProxy::start: where the accept loop stands
    accepted,        \* connections accepted by the listener so far
    sess,            \* the tasks spawned by TcpProxy::start, in spawn order
    fdReader,        \* forward_data called on its own: what the reader holds
    fdPos,           \* how much of it forward_data has read
    fdWriter,        \* what forward_data has written to the writer
    fdDirty,         \* bytes written to the writer since its last flush
    fdSt,            \* the await forward_data is suspended at
    fdBuf,           \* buffer[..n], the chunk of the last read
    fdResult         \* what forward_data returned

streamVars == <<clientIn, clientPos, clientOut, serverIn, serverOut, serverPos>>

decodeVars == <<version, request, reqConsumed>>

connVars == <<target, connected, connectAttempts>>

writeVars == <<resp, after, responses, frameLen, flushed>>

endVars == <<result, clientOpen, serverOpen>>

proxyVars == <<config, listener, accepted, sess>>

fdVars == <<fdReader, fdPos, fdWriter, fdDirty, fdSt, fdBuf, fdResult>>

vars == <<mode, streamVars, pc, decodeVars, connVars, writeVars, fwd, fwdStarted,
          endVars, errlog, proxyVars, fdVars>>

FwdIdle == [d \in Dirs |-> [st |-> "idle", buf |-> <<>>]]

FwdStart == [d \in Dirs |-> [st |-> "read", buf |-> <<>>]]

\* ProxyConfig.  config.rs keeps listen_addr and mode; proxy.rs reads
\* config.target_addr, which its tests expect to be 93.184.216.34:80 after
\* ProxyConfig::new() and the given address after with_target_addr.
DefaultConfig == [mode |-> Socks4, target_addr |-> V4(<<93, 184, 216, 34>>, 80)]

WithTargetAddr(c, addr) == [mode |-> Direct(addr), target_addr |-> addr]

WithSocks4Mode(c) == [c EXCEPT !.mode = Socks4]

\* main: the configuration built from the command line.
Configs ==
    { WithTargetAddr(DefaultConfig, a) : a \in DirectTargets }
      \cup { WithSocks4Mode(DefaultConfig) }

\* forward_data is not running on its own.
FdIdle ==
    /\ fdReader = <<>> /\ fdPos = 0 /\ fdWriter = <<>> /\ fdDirty = 0
    /\ fdSt = "idle" /\ fdBuf = <<>> /\ fdResult = "none"

\* ConnectionHandler::new: a fresh session over an accepted client stream.
Init ==
    /\ FdIdle
    /\ mode \in Modes
    /\ clientIn \in IF mode.kind = "Socks4" THEN ClientStreams ELSE DirectClientStreams
    /\ serverOut \in ServerStreams
    /\ clientPos = 0 /\ clientOut = <<>> /\ serverIn = <<>> /\ serverPos = 0
    /\ pc = "Start"
    /\ version = 0 /\ request = NoRequest /\ reqConsumed = 0
    /\ target = NoAddr /\ connected = FALSE /\ connectAttempts = 0
    /\ resp = NoResponse /\ after = "none" /\ responses = 0 /\ frameLen = 0
    /\ flushed = FALSE
    /\ fwd = FwdIdle /\ fwdStarted = FALSE
    /\ result = "none" /\ clientOpen = TRUE /\ serverOpen = FALSE
    /\ errlog = {}
    /\ config = DefaultConfig /\ listener = "none" /\ accepted = 0 /\ sess = <<>>

\* handle returns r: self and server_stream are dropped, both sockets close.
Return(r) ==
    /\ pc' = "Done"
    /\ result' = r
    /\ clientOpen' = FALSE
    /\ serverOpen' = FALSE

\* handle, the match on self.mode.
Start ==
    /\ pc = "Start"
    /\ IF mode.kind = "Direct"
       THEN /\ target' = mode.addr
            /\ pc' = "Connect"
       ELSE /\ target' = target
            /\ pc' = "ReadVersion"
    /\ UNCHANGED <<mode, streamVars, decodeVars, connected, connectAttempts,
                   writeVars, fwd, fwdStarted, endVars, errlog, proxyVars, fdVars>>

Avail == Len(clientIn) - clientPos

NextBytes(n) == SubSeq(clientIn, clientPos + 1, clientPos + n)

\* Mutant: the reader takes one byte more off the stream than read_from
\* asked for, when there is one.
Take_ReadAhead(n) ==
    /\ clientPos' = Min(clientPos + n + 1, Len(clientIn))
    /\ reqConsumed' = reqConsumed + n

\* read_from takes n bytes from the client stream.
Take(n) ==
    /\ clientPos' = clientPos + n
    /\ reqConsumed' = reqConsumed + n

\* A read of read_from fails: `?` carries the error out of read_from,
\* out of handle_socks4_handshake and out of handle.
ReadFails(r) ==
    /\ Return(r)
    /\ UNCHANGED <<version, request>>

\* read_exact of n bytes on a stream that ends first: what is there is taken,
\* then UnexpectedEof.
ReadEof ==
    /\ Take(Avail)
    /\ ReadFails("UnexpectedEof")

ReadIoError ==
    /\ Take(0)
    /\ ReadFails("IoError")

\* The call of write_to(r) at call site `site`.
CallWriteTo(r, site) ==
    /\ resp' = r
    /\ after' = site
    /\ responses' = responses + 1
    /\ pc' = "WriteVn"
    /\ UNCHANGED <<frameLen, flushed>>

\* Mutant: a non-CONNECT command bails without the failure response.
HandshakeRequest_NoReply(req) ==
    IF req.command # 1
    THEN /\ Return("UnsupportedCommand")
         /\ UNCHANGED <<target, writeVars>>
    ELSE /\ target' = DestinationAddr(req)
         /\ pc' = "Connect"
         /\ UNCHANGED <<writeVars, endVars>>

\* handle_socks4_handshake after read_from returned req.
HandshakeRequest(req) ==
    IF req.command # 1
    THEN /\ CallWriteTo(Failure, "bind")
         /\ UNCHANGED <<target, endVars>>
    ELSE /\ target' = DestinationAddr(req)
         /\ pc' = "Connect"
         /\ UNCHANGED <<writeVars, endVars>>

\* Mutant: the version byte is read but checked nowhere.
ReadVersion_NoCheck ==
    /\ pc = "ReadVersion"
    /\ \/ ReadIoError
       \/ Avail = 0 /\ ReadEof
       \/ /\ Avail >= 1
          /\ Take(1)
          /\ version' = NextBytes(1)[1]
          /\ pc' = "ReadCommand"
          /\ UNCHANGED <<endVars, request>>
    /\ UNCHANGED <<mode, clientIn, clientOut, serverIn, serverOut, serverPos,
                   connVars, writeVars, fwd, fwdStarted, errlog, proxyVars, fdVars>>

\* read_from: let version = reader.read_u8().await?; the version check.
ReadVersion ==
    /\ pc = "ReadVersion"
    /\ \/ ReadIoError
       \/ Avail = 0 /\ ReadEof
       \/ /\ Avail >= 1
          /\ Take(1)
          /\ version' = NextBytes(1)[1]
          /\ IF NextBytes(1)[1] # SOCKS4_VERSION
             THEN Return("InvalidVersion")
             ELSE pc' = "ReadCommand" /\ UNCHANGED endVars
          /\ UNCHANGED request
    /\ UNCHANGED <<mode, clientIn, clientOut, serverIn, serverOut, serverPos,
                   connVars, writeVars, fwd, fwdStarted, errlog, proxyVars, fdVars>>

\* read_from: let command = reader.read_u8().await?; the command check.
ReadCommand ==
    /\ pc = "ReadCommand"
    /\ \/ ReadIoError
       \/ Avail = 0 /\ ReadEof
       \/ /\ Avail >= 1
          /\ Take(1)
          /\ LET command == NextBytes(1)[1] IN
             IF command # SOCKS4_CONNECT /\ command # SOCKS4_BIND
             THEN Return("UnsupportedCommandByte") /\ UNCHANGED request
             ELSE /\ request' = [request EXCEPT !.command = command]
                  /\ pc' = "ReadPort"
                  /\ UNCHANGED endVars
          /\ UNCHANGED version
    /\ UNCHANGED <<mode, clientIn, clientOut, serverIn, serverOut, serverPos,
                   connVars, writeVars, fwd, fwdStarted, errlog, proxyVars, fdVars>>

\* read_from: let dst_port = reader.read_u16().await?
ReadPort ==
    /\ pc = "ReadPort"
    /\ \/ ReadIoError
       \/ Avail < 2 /\ ReadEof
       \/ /\ Avail >= 2
          /\ Take(2)
          /\ request' = [request EXCEPT !.dst_port = U16FromBytes(NextBytes(2))]
          /\ pc' = "ReadIp"
          /\ UNCHANGED <<version, endVars>>
    /\ UNCHANGED <<mode, clientIn, clientOut, serverIn, serverOut, serverPos,
                   connVars, writeVars, fwd, fwdStarted, errlog, proxyVars, fdVars>>

\* read_from: reader.read_exact(&mut ip_bytes).await?
ReadIp ==
    /\ pc = "ReadIp"
    /\ \/ ReadIoError
       \/ Avail < 4 /\ ReadEof
       \/ /\ Avail >= 4
          /\ Take(4)
          /\ request' = [request EXCEPT !.dst_ip = NextBytes(4)]
          /\ pc' = "ReadUserId"
          /\ UNCHANGED <<version, endVars>>
    /\ UNCHANGED <<mode, clientIn, clientOut, serverIn, serverOut, serverPos,
                   connVars, writeVars, fwd, fwdStarted, errlog, proxyVars, fdVars>>

\* Mutant: the user id is refused when it reaches the limit.
TooLong_AtLimit(userid) == Len(userid) >= USERID_LIMIT

\* read_from: if userid.len() > 256, after the push.
TooLong(userid) == Len(userid) > USERID_LIMIT

\* read_from: one turn of the userid loop; on the NUL read_from returns and
\* handle_socks4_handshake goes on with the request.
ReadUserId ==
    /\ pc = "ReadUserId"
    /\ \/ ReadIoError /\ UNCHANGED <<target, writeVars>>
       \/ Avail = 0 /\ ReadEof /\ UNCHANGED <<target, writeVars>>
       \/ /\ Avail >= 1
          /\ Take(1)
          /\ UNCHANGED version
          /\ LET byte == NextBytes(1)[1] IN
             IF byte = 0
             THEN /\ HandshakeRequest(request)
                  /\ UNCHANGED request
             ELSE /\ request' = [request EXCEPT !.userid = Append(@, byte)]
                  /\ IF TooLong(Append(request.userid, byte))
                     THEN Return("UserIdTooLong")
                     ELSE pc' = "ReadUserId" /\ UNCHANGED endVars
                  /\ UNCHANGED <<target, writeVars>>
    /\ UNCHANGED <<mode, clientIn, clientOut, serverIn, serverOut, serverPos,
                   connected, connectAttempts, fwd, fwdStarted, errlog, proxyVars, fdVars>>

\* forward_traffic is entered: both streams are split, both directions start.
EnterForwarding ==
    /\ pc' = "Forwarding"
    /\ fwd' = FwdStart
    /\ fwdStarted' = TRUE
    /\ UNCHANGED endVars

\* Mutant: the response after a successful connect is left out.
Connected_NoResponse ==
    /\ connected' = TRUE
    /\ serverOpen' = TRUE
    /\ pc' = "Forwarding"
    /\ fwd' = FwdStart
    /\ fwdStarted' = TRUE
    /\ UNCHANGED <<writeVars, result, clientOpen, errlog>>

\* handle after TcpStream::connect returned Ok.
Connected ==
    /\ connected' = TRUE
    /\ serverOpen' = TRUE
    /\ IF mode.kind = "Socks4"
       THEN /\ CallWriteTo(IF TryFromSocketAddr(target).ok
                           THEN TryFromSocketAddr(target).val
                           ELSE Failure, "granted")
            /\ UNCHANGED <<fwd, fwdStarted, result, clientOpen, errlog>>
       ELSE /\ pc' = "Forwarding"
            /\ fwd' = FwdStart
            /\ fwdStarted' = TRUE
            /\ UNCHANGED <<writeVars, result, clientOpen, errlog>>

\* Mutant: the response after a failed connect is built from the target.
ConnectFailed_Granted ==
    /\ errlog' = errlog \cup {"connect"}
    /\ UNCHANGED <<connected, fwd, fwdStarted>>
    /\ IF mode.kind = "Socks4"
       THEN /\ CallWriteTo(Success(target), "connect_err")
            /\ UNCHANGED endVars
       ELSE /\ Return("ConnectError")
            /\ UNCHANGED writeVars

\* Mutant: the failure response is sent whatever the mode.
ConnectFailed_AlwaysReply ==
    /\ errlog' = errlog \cup {"connect"}
    /\ UNCHANGED <<connected, fwd, fwdStarted>>
    /\ CallWriteTo(Failure, "connect_err")
    /\ UNCHANGED endVars

\* handle after TcpStream::connect returned Err(e).
ConnectFailed ==
    /\ errlog' = errlog \cup {"connect"}
    /\ UNCHANGED <<connected, fwd, fwdStarted>>
    /\ IF mode.kind = "Socks4"
       THEN /\ CallWriteTo(Failure, "connect_err")
            /\ UNCHANGED endVars
       ELSE /\ Return("ConnectError")
            /\ UNCHANGED writeVars

\* handle: TcpStream::connect(target_addr).await
Connect ==
    /\ pc = "Connect"
    /\ connectAttempts' = connectAttempts + 1
    /\ \/ Connected
       \/ ConnectFailed
    /\ UNCHANGED <<mode, streamVars, decodeVars, target, proxyVars, fdVars>>

\* Mutant: `?` in place of `let _ =` after a failed connect.
WriteToReturned_Propagate(ok) ==
    CASE after = "connect_err" ->
           /\ Return(IF ok THEN "ConnectError" ELSE "WriteError")
           /\ UNCHANGED <<fwd, fwdStarted>>
      [] after = "bind" ->
           /\ Return(IF ok THEN "UnsupportedCommand" ELSE "WriteError")
           /\ UNCHANGED <<fwd, fwdStarted>>
      [] after = "granted" ->
           IF ok
           THEN EnterForwarding
           ELSE Return("WriteError") /\ UNCHANGED <<fwd, fwdStarted>>

\* Mutant: `let _ =` in place of `?` after a successful connect.
WriteToReturned_IgnoreErr(ok) ==
    CASE after = "connect_err" ->
           Return("ConnectError") /\ UNCHANGED <<fwd, fwdStarted>>
      [] after = "bind" ->
           /\ Return(IF ok THEN "UnsupportedCommand" ELSE "WriteError")
           /\ UNCHANGED <<fwd, fwdStarted>>
      [] after = "granted" -> EnterForwarding

\* write_to returned at its call site: `let _ =` after a failed connect,
\* `?` then bail! in handle_socks4_handshake, `?` then forward_traffic in handle.
WriteToReturned(ok) ==
    CASE after = "connect_err" ->
           Return("ConnectError") /\ UNCHANGED <<fwd, fwdStarted>>
      [] after = "bind" ->
           /\ Return(IF ok THEN "UnsupportedCommand" ELSE "WriteError")
           /\ UNCHANGED <<fwd, fwdStarted>>
      [] after = "granted" ->
           IF ok
           THEN EnterForwarding
           ELSE Return("WriteError") /\ UNCHANGED <<fwd, fwdStarted>>

\* One write of write_to: field i of the frame, then on to pc `next`.  A write
\* that fails may have put a proper prefix of the field on the wire.
WriteField(i, next) ==
    LET field == ResponseFields(resp)[i] IN
    /\ \/ /\ clientOut' = clientOut \o field
          /\ frameLen' = frameLen + Len(field)
          /\ pc' = next
          /\ UNCHANGED <<fwd, fwdStarted, endVars>>
       \/ \E k \in 0..(Len(field) - 1) :
            /\ clientOut' = clientOut \o SubSeq(field, 1, k)
            /\ frameLen' = frameLen + k
            /\ WriteToReturned(FALSE)
    /\ UNCHANGED <<mode, clientIn, clientPos, serverIn, serverOut, serverPos,
                   decodeVars, connVars, resp, after, responses, flushed, errlog,
                   proxyVars, fdVars>>

\* write_to: writer.write_u8(SOCKS4_REPLY_VERSION).await?
WriteVn == pc = "WriteVn" /\ WriteField(1, "WriteStatus")

\* write_to: writer.write_u8(self.status).await?
WriteStatus == pc = "WriteStatus" /\ WriteField(2, "WritePort")

\* write_to: writer.write_u16(self.dst_port).await?
WritePort == pc = "WritePort" /\ WriteField(3, "WriteIp")

\* write_to: writer.write_all(&self.dst_ip.octets()).await?
WriteIp == pc = "WriteIp" /\ WriteField(4, "WriteFlush")

\* write_to: writer.flush().await?; Ok(())
WriteFlush ==
    /\ pc = "WriteFlush"
    /\ \/ flushed' = TRUE /\ WriteToReturned(TRUE)
       \/ flushed' = flushed /\ WriteToReturned(FALSE)
    /\ UNCHANGED <<mode, streamVars, decodeVars, connVars, resp, after, responses,
                   frameLen, errlog, proxyVars, fdVars>>

(***************************************************************************)
(* forward_data, one direction d of forward_traffic.  The tokio::select!   *)
(* in forward_traffic returns Ok(()) as soon as one direction returns, in  *)
(* the same poll; the other direction is dropped where it stands.          *)
(***************************************************************************)
Source(d) == IF d = "c2s" THEN clientIn ELSE serverOut

SourcePos(d) == IF d = "c2s" THEN clientPos ELSE serverPos

Sink(d) == IF d = "c2s" THEN serverIn ELSE clientOut

SetSourcePos(d, n) ==
    IF d = "c2s"
    THEN clientPos' = n /\ serverPos' = serverPos
    ELSE serverPos' = n /\ clientPos' = clientPos

SetSink(d, s) ==
    IF d = "c2s"
    THEN serverIn' = s /\ clientOut' = clientOut
    ELSE clientOut' = s /\ serverIn' = serverIn

\* Mutant: forward_traffic waits for both directions (a join, not a select).
DirectionReturned_Join(d, err) ==
    /\ errlog' = IF err THEN errlog \cup {d} ELSE errlog
    /\ fwd' = [fwd EXCEPT ![d].st = IF err THEN "failed" ELSE "eof"]
    /\ IF \A e \in Dirs \ {d} : fwd[e].st \in {"eof", "failed"}
       THEN Return("Ok")
       ELSE UNCHANGED <<pc, endVars>>

\* Mutant: the error of a direction is returned by forward_traffic.
DirectionReturned_Propagate(d, err) ==
    /\ errlog' = IF err THEN errlog \cup {d} ELSE errlog
    /\ fwd' = [fwd EXCEPT ![d].st = IF err THEN "failed" ELSE "eof"]
    /\ Return(IF err THEN "IoError" ELSE "Ok")

\* Direction d returned (Ok at EOF, or Err): its select! arm runs, logs an
\* Err, the other direction is dropped where it stands, and forward_traffic
\* returns Ok(()).
DirectionReturned(d, err) ==
    /\ errlog' = IF err THEN errlog \cup {d} ELSE errlog
    /\ fwd' = [fwd EXCEPT ![d].st = IF err THEN "failed" ELSE "eof"]
    /\ Return("Ok")

\* forward_data: let n = reader.read(&mut buffer).await?; if n == 0 { break }
FwdRead(d) ==
    /\ pc = "Forwarding"
    /\ fwd[d].st = "read"
    /\ LET avail == Len(Source(d)) - SourcePos(d) IN
       \/ /\ avail = 0
          /\ DirectionReturned(d, FALSE)
          /\ UNCHANGED <<clientPos, serverPos>>
       \/ /\ DirectionReturned(d, TRUE)
          /\ UNCHANGED <<clientPos, serverPos>>
       \/ \E n \in 1..Min(avail, BUFFER_SIZE) :
            /\ fwd' = [fwd EXCEPT ![d] =
                         [st |-> "write",
                          buf |-> SubSeq(Source(d), SourcePos(d) + 1, SourcePos(d) + n)]]
            /\ SetSourcePos(d, SourcePos(d) + n)
            /\ UNCHANGED <<pc, endVars, errlog>>
    /\ UNCHANGED <<mode, clientIn, clientOut, serverIn, serverOut, decodeVars,
                   connVars, writeVars, fwdStarted, proxyVars, fdVars>>

\* Mutant: a write that failed part-way is tried again with the whole chunk.
FwdWrite_Resend(d) ==
    /\ pc = "Forwarding"
    /\ fwd[d].st = "write"
    /\ \/ /\ SetSink(d, Sink(d) \o fwd[d].buf)
          /\ fwd' = [fwd EXCEPT ![d].st = "flush"]
       \/ \E k \in 0..(Len(fwd[d].buf) - 1) :
            /\ SetSink(d, Sink(d) \o SubSeq(fwd[d].buf, 1, k))
            /\ UNCHANGED fwd
    /\ UNCHANGED <<pc, endVars, errlog>>
    /\ UNCHANGED <<mode, clientIn, clientPos, serverOut, serverPos, decodeVars,
                   connVars, writeVars, fwdStarted, proxyVars, fdVars>>

\* forward_data: writer.write_all(&buffer[..n]).await?
FwdWrite(d) ==
    /\ pc = "Forwarding"
    /\ fwd[d].st = "write"
    /\ \/ /\ SetSink(d, Sink(d) \o fwd[d].buf)
          /\ fwd' = [fwd EXCEPT ![d].st = "flush"]
          /\ UNCHANGED <<pc, endVars, errlog>>
       \/ \E k \in 0..(Len(fwd[d].buf) - 1) :
            /\ SetSink(d, Sink(d) \o SubSeq(fwd[d].buf, 1, k))
            /\ DirectionReturned(d, TRUE)
    /\ UNCHANGED <<mode, clientIn, clientPos, serverOut, serverPos, decodeVars,
                   connVars, writeVars, fwdStarted, proxyVars, fdVars>>

\* forward_data: writer.flush().await?; back to the read.
FwdFlush(d) ==
    /\ pc = "Forwarding"
    /\ fwd[d].st = "flush"
    /\ \/ /\ fwd' = [fwd EXCEPT ![d] = [st |-> "read", buf |-> <<>>]]
          /\ UNCHANGED <<pc, endVars, errlog>>
       \/ DirectionReturned(d, TRUE)
    /\ UNCHANGED <<mode, streamVars, decodeVars, connVars, writeVars, fwdStarted,
                   proxyVars, fdVars>>

ForwardRead == \E d \in Dirs : FwdRead(d)

ForwardWrite == \E d \in Dirs : FwdWrite(d)

ForwardFlush == \E d \in Dirs : FwdFlush(d)

Next ==
    \/ Start
    \/ ReadVersion
    \/ ReadCommand
    \/ ReadPort
    \/ ReadIp
    \/ ReadUserId
    \/ Connect
    \/ WriteVn
    \/ WriteStatus
    \/ WritePort
    \/ WriteIp
    \/ WriteFlush
    \/ ForwardRead
    \/ ForwardWrite
    \/ ForwardFlush

Spec == Init /\ [][Next]_vars

(***************************************************************************)
(* The same session over the requests that exercise read_from: every user  *)
(* id length up to and over the limit, and ports and addresses over the    *)
(* whole range of their bytes.                                             *)
(***************************************************************************)
DecodePorts == {0, 80, 256, 8080, 65535}

DecodeIps == { <<0, 0, 0, 0>>, <<66, 102, 7, 99>>, <<127, 0, 0, 1>>,
               <<255, 255, 255, 255>> }

\* User ids of every length from none to over the limit.
SweepUserIds == { [i \in 1..n |-> 70] : n \in 0..(USERID_LIMIT + MaxUserId) }

DecodeStreams ==
    { RequestBytes(SOCKS4_VERSION, SOCKS4_CONNECT, p, ip, u) :
        p \in Ports, ip \in Ips, u \in SweepUserIds }
      \cup { RequestBytes(SOCKS4_VERSION, c, p, ip, u) \o d :
               c \in {SOCKS4_CONNECT, SOCKS4_BIND}, p \in DecodePorts,
               ip \in DecodeIps, u \in UserIds, d \in ClientPayloads }
      \cup { <<SOCKS4_VERSION, SOCKS4_CONNECT>> \o U16ToBytes(p) \o ip \o u :
               p \in Ports, ip \in Ips, u \in LongUserIds }

\* A fresh Socks4 session whose client sends one of DecodeStreams; the
\* server it reaches sends nothing.
InitDecode ==
    /\ FdIdle
    /\ mode = Socks4
    /\ clientIn \in DecodeStreams
    /\ serverOut = <<>>
    /\ clientPos = 0 /\ clientOut = <<>> /\ serverIn = <<>> /\ serverPos = 0
    /\ pc = "Start"
    /\ version = 0 /\ request = NoRequest /\ reqConsumed = 0
    /\ target = NoAddr /\ connected = FALSE /\ connectAttempts = 0
    /\ resp = NoResponse /\ after = "none" /\ responses = 0 /\ frameLen = 0
    /\ flushed = FALSE
    /\ fwd = FwdIdle /\ fwdStarted = FALSE
    /\ result = "none" /\ clientOpen = TRUE /\ serverOpen = FALSE
    /\ errlog = {}
    /\ config = DefaultConfig /\ listener = "none" /\ accepted = 0 /\ sess = <<>>

SpecDecode == InitDecode /\ [][Next]_vars

(***************************************************************************)
(* TcpProxy (proxy.rs): the accept loop and the tasks it spawns.           *)
(***************************************************************************)
sessionVars == <<mode, streamVars, pc, decodeVars, connVars, writeVars, fwd,
                 fwdStarted, endVars, errlog>>

\* What the clients of the modelled listener send, and what their
\* destinations send.
ProxyClientStreams == { <<>>, <<SOCKS4_VERSION>> }

ProxyServerStreams == { <<201>> }

\* The task tokio::spawn starts for an accepted connection.
Spawned(cin, sout, addr) ==
    [pc |-> "Connect", target |-> addr,
     clientIn |-> cin, clientPos |-> 0, clientOut |-> <<>>,
     serverIn |-> <<>>, serverOut |-> sout, serverPos |-> 0,
     fwd |-> FwdIdle, result |-> "none", logged |-> {}]

InitProxy ==
    /\ FdIdle
    /\ config \in Configs
    /\ listener = "start"
    /\ accepted = 0
    /\ sess = <<>>
    /\ mode = config.mode
    /\ clientIn = <<>> /\ serverOut = <<>>
    /\ clientPos = 0 /\ clientOut = <<>> /\ serverIn = <<>> /\ serverPos = 0
    /\ pc = "Unused"
    /\ version = 0 /\ request = NoRequest /\ reqConsumed = 0
    /\ target = NoAddr /\ connected = FALSE /\ connectAttempts = 0
    /\ resp = NoResponse /\ after = "none" /\ responses = 0 /\ frameLen = 0
    /\ flushed = FALSE
    /\ fwd = FwdIdle /\ fwdStarted = FALSE
    /\ result = "none" /\ clientOpen = FALSE /\ serverOpen = FALSE
    /\ errlog = {}

\* start: TcpListener::bind(self.config.listen_addr).await?
Bind ==
    /\ listener = "start"
    /\ listener' \in {"listening", "failed"}
    /\ UNCHANGED <<config, accepted, sess, sessionVars, fdVars>>

\* start, one turn of the loop: listener.accept().await?, then tokio::spawn
\* of handle_client_connection(client_stream, self.config.target_addr).
Accept ==
    /\ listener = "listening"
    /\ accepted < MaxSessions
    /\ \/ \E cin \in ProxyClientStreams, sout \in ProxyServerStreams :
            /\ sess' = Append(sess, Spawned(cin, sout, config.target_addr))
            /\ accepted' = accepted + 1
            /\ UNCHANGED listener
       \/ /\ listener' = "failed"
          /\ UNCHANGED <<accepted, sess>>
    /\ UNCHANGED <<config, sessionVars, fdVars>>

\* The spawned task ends: handle_client_connection returned r, the closure
\* logs an Err, both streams are dropped.
TaskReturned(s, r) ==
    [s EXCEPT !.pc = "Done", !.result = r,
              !.logged = IF r = "Ok" THEN @ ELSE @ \cup {"task"}]

\* Mutant: a failed connect of a task takes the listener down with it.
ProxyConnect_StopsListener(i) ==
    /\ sess[i].pc = "Connect"
    /\ \/ /\ sess' = [sess EXCEPT ![i] = [@ EXCEPT !.pc = "Forwarding", !.fwd = FwdStart]]
          /\ UNCHANGED listener
       \/ /\ sess' = [sess EXCEPT ![i] = TaskReturned(@, "ConnectError")]
          /\ listener' = "failed"
    /\ UNCHANGED <<config, accepted, sessionVars, fdVars>>

\* handle_client_connection: TcpStream::connect(target_addr).await?
ProxyConnect(i) ==
    /\ sess[i].pc = "Connect"
    /\ \/ sess' = [sess EXCEPT ![i] = [@ EXCEPT !.pc = "Forwarding", !.fwd = FwdStart]]
       \/ sess' = [sess EXCEPT ![i] = TaskReturned(@, "ConnectError")]
    /\ UNCHANGED <<config, listener, accepted, sessionVars, fdVars>>

\* A direction of handle_client_connection returned: the select! arm logs
\* an Err and the task returns Ok(()).
ProxyDirectionReturned(s, d, err) ==
    TaskReturned([s EXCEPT !.logged = IF err THEN @ \cup {d} ELSE @], "Ok")

ProxySource(s, d) == IF d = "c2s" THEN s.clientIn ELSE s.serverOut

ProxySourcePos(s, d) == IF d = "c2s" THEN s.clientPos ELSE s.serverPos

ProxySink(s, d) == IF d = "c2s" THEN s.serverIn ELSE s.clientOut

ProxySetSourcePos(s, d, n) ==
    IF d = "c2s" THEN [s EXCEPT !.clientPos = n] ELSE [s EXCEPT !.serverPos = n]

ProxySetSink(s, d, out) ==
    IF d = "c2s" THEN [s EXCEPT !.serverIn = out] ELSE [s EXCEPT !.clientOut = out]

\* proxy.rs forward_data: let n = reader.read(&mut buffer).await?
ProxyFwdRead(i, d) ==
    LET s == sess[i]
        avail == Len(ProxySource(s, d)) - ProxySourcePos(s, d)
    IN
    /\ s.pc = "Forwarding"
    /\ s.fwd[d].st = "read"
    /\ \/ /\ avail = 0
          /\ sess' = [sess EXCEPT ![i] = ProxyDirectionReturned(s, d, FALSE)]
       \/ sess' = [sess EXCEPT ![i] = ProxyDirectionReturned(s, d, TRUE)]
       \/ \E n \in 1..Min(avail, BUFFER_SIZE) :
            sess' = [sess EXCEPT ![i] =
                       ProxySetSourcePos(
                         [s EXCEPT !.fwd[d] =
                            [st |-> "write",
                             buf |-> SubSeq(ProxySource(s, d), ProxySourcePos(s, d) + 1,
                                            ProxySourcePos(s, d) + n)]],
                         d, ProxySourcePos(s, d) + n)]
    /\ UNCHANGED <<config, listener, accepted, sessionVars, fdVars>>

\* proxy.rs forward_data: writer.write_all(&buffer[..n]).await?
ProxyFwdWrite(i, d) ==
    LET s == sess[i] IN
    /\ s.pc = "Forwarding"
    /\ s.fwd[d].st = "write"
    /\ \/ sess' = [sess EXCEPT ![i] =
                     ProxySetSink([s EXCEPT !.fwd[d].st = "flush"], d,
                                  ProxySink(s, d) \o s.fwd[d].buf)]
       \/ \E k \in 0..(Len(s.fwd[d].buf) - 1) :
            sess' = [sess EXCEPT ![i] =
                       ProxyDirectionReturned(
                         ProxySetSink(s, d, ProxySink(s, d) \o SubSeq(s.fwd[d].buf, 1, k)),
                         d, TRUE)]
    /\ UNCHANGED <<config, listener, accepted, sessionVars, fdVars>>

\* proxy.rs forward_data: writer.flush().await?
ProxyFwdFlush(i, d) ==
    LET s == sess[i] IN
    /\ s.pc = "Forwarding"
    /\ s.fwd[d].st = "flush"
    /\ \/ sess' = [sess EXCEPT ![i] = [s EXCEPT !.fwd[d] = [st |-> "read", buf |-> <<>>]]]
       \/ sess' = [sess EXCEPT ![i] = ProxyDirectionReturned(s, d, TRUE)]
    /\ UNCHANGED <<config, listener, accepted, sessionVars, fdVars>>

ProxyTaskConnect == \E i \in DOMAIN sess : ProxyConnect(i)

ProxyTaskRead == \E i \in DOMAIN sess, d \in Dirs : ProxyFwdRead(i, d)

ProxyTaskWrite == \E i \in DOMAIN sess, d \in Dirs : ProxyFwdWrite(i, d)

ProxyTaskFlush == \E i \in DOMAIN sess, d \in Dirs : ProxyFwdFlush(i, d)

NextProxy ==
    \/ Bind
    \/ Accept
    \/ ProxyTaskConnect
    \/ ProxyTaskRead
    \/ ProxyTaskWrite
    \/ ProxyTaskFlush

SpecProxy == InitProxy /\ [][NextProxy]_vars

(***************************************************************************)
(* forward_data (connection.rs) called on its own over a reader and a      *)
(* writer, as test_forward_data calls it.                                  *)
(***************************************************************************)
\* The bytes a source of n bytes holds.
Stream(n) == [i \in 1..n |-> i % 251]

\* Sources: short ones, and ones just below, at and just above the buffer.
FdSources ==
    { Stream(n) : n \in 0..MaxShort }
      \cup { Stream(n) : n \in (BUFFER_SIZE - 1)..(BUFFER_SIZE + 1) }

\* What one reader.read(&mut buffer) may return with avail bytes left: at
\* most the buffer, and in the model at most MaxShort - 1 bytes less than
\* the most it can take (so every size when few bytes are left).
ReadSizes(avail) ==
    { n \in 1..Min(avail, BUFFER_SIZE) : n > Min(avail, BUFFER_SIZE) - MaxShort }

\* How much of a chunk of len bytes a failed write_all may have written.
PartialSizes(len) ==
    { k \in 0..(len - 1) : k < MaxShort \/ k >= len - MaxShort }

\* Mutant: the slice written is one byte short of what was read.
Chunk_OneShort(src, pos, n) == SubSeq(src, pos + 1, pos + n - 1)

\* buffer[..n] after a read of n bytes at pos.
Chunk(src, pos, n) == SubSeq(src, pos + 1, pos + n)

\* The call forward_data(reader, writer, ..): the buffer is allocated, the
\* loop is at its first read.
InitForward ==
    /\ fdReader \in FdSources
    /\ fdPos = 0 /\ fdWriter = <<>> /\ fdDirty = 0
    /\ fdSt = "read" /\ fdBuf = <<>> /\ fdResult = "none"
    /\ mode = Socks4
    /\ clientIn = <<>> /\ serverOut = <<>>
    /\ clientPos = 0 /\ clientOut = <<>> /\ serverIn = <<>> /\ serverPos = 0
    /\ pc = "Unused"
    /\ version = 0 /\ request = NoRequest /\ reqConsumed = 0
    /\ target = NoAddr /\ connected = FALSE /\ connectAttempts = 0
    /\ resp = NoResponse /\ after = "none" /\ responses = 0 /\ frameLen = 0
    /\ flushed = FALSE
    /\ fwd = FwdIdle /\ fwdStarted = FALSE
    /\ result = "none" /\ clientOpen = FALSE /\ serverOpen = FALSE
    /\ errlog = {}
    /\ config = DefaultConfig /\ listener = "none" /\ accepted = 0 /\ sess = <<>>

\* forward_data returns r.
FdReturn(r) ==
    /\ fdSt' = "done"
    /\ fdResult' = r

\* let n = reader.read(&mut buffer).await?; if n == 0 { break; } .. Ok(())
FdRead ==
    /\ fdSt = "read"
    /\ \/ /\ fdPos = Len(fdReader)
          /\ FdReturn("Ok")
          /\ UNCHANGED <<fdPos, fdBuf>>
       \/ /\ FdReturn("Err")
          /\ UNCHANGED <<fdPos, fdBuf>>
       \/ \E n \in ReadSizes(Len(fdReader) - fdPos) :
            /\ fdBuf' = Chunk(fdReader, fdPos, n)
            /\ fdPos' = fdPos + n
            /\ fdSt' = "write"
            /\ UNCHANGED fdResult
    /\ UNCHANGED <<fdReader, fdWriter, fdDirty, sessionVars, proxyVars>>

\* Mutant: the flush is left out, the loop goes back to the read.
FdWrite_NoFlush ==
    /\ fdSt = "write"
    /\ \/ /\ fdWriter' = fdWriter \o fdBuf
          /\ fdDirty' = fdDirty + Len(fdBuf)
          /\ fdSt' = "read"
          /\ UNCHANGED fdResult
       \/ \E k \in PartialSizes(Len(fdBuf)) :
            /\ fdWriter' = fdWriter \o SubSeq(fdBuf, 1, k)
            /\ fdDirty' = fdDirty + k
            /\ FdReturn("Err")
    /\ UNCHANGED <<fdReader, fdPos, fdBuf, sessionVars, proxyVars>>

\* writer.write_all(&buffer[..n]).await?
FdWrite ==
    /\ fdSt = "write"
    /\ \/ /\ fdWriter' = fdWriter \o fdBuf
          /\ fdDirty' = fdDirty + Len(fdBuf)
          /\ fdSt' = "flush"
          /\ UNCHANGED fdResult
       \/ \E k \in PartialSizes(Len(fdBuf)) :
            /\ fdWriter' = fdWriter \o SubSeq(fdBuf, 1, k)
            /\ fdDirty' = fdDirty + k
            /\ FdReturn("Err")
    /\ UNCHANGED <<fdReader, fdPos, fdBuf, sessionVars, proxyVars>>

\* writer.flush().await?; then the next turn of the loop.
FdFlush ==
    /\ fdSt = "flush"
    /\ \/ /\ fdDirty' = 0
          /\ fdSt' = "read"
          /\ UNCHANGED fdResult
       \/ /\ FdReturn("Err")
          /\ UNCHANGED fdDirty
    /\ UNCHANGED <<fdReader, fdPos, fdWriter, fdBuf, sessionVars, proxyVars>>

NextForward ==
    \/ FdRead
    \/ FdWrite
    \/ FdFlush

SpecForward == InitForward /\ [][NextForward]_vars

(***************************************************************************)
(* Properties.                                                             *)
(***************************************************************************)
Negotiated == mode.kind = "Socks4"

\* The part of clientOut that write_to wrote, and the payload after it.
Frame == SubSeq(clientOut, 1, frameLen)

PayloadToClient == Drop(clientOut, frameLen)

\* The status byte of the frame is on the wire and is st.
StatusWritten(st) == frameLen >= 2 /\ clientOut[2] = st

\* A complete response frame is on the wire.
FrameComplete ==
    /\ frameLen = 8
    /\ Frame = EncodeResponse(resp)
    /\ Frame[1] = SOCKS4_REPLY_VERSION
    /\ Frame[2] \in {SOCKS4_REQUEST_GRANTED, SOCKS4_REQUEST_REJECTED}

\* The outcomes of a read_from that failed.
DecodeErrors ==
    {"InvalidVersion", "UnsupportedCommandByte", "UserIdTooLong", "UnexpectedEof",
     "IoError"}

\* The reasons C1 lists for a session to terminate: version mismatch,
\* unsupported command byte, user id too long, stream closed mid-frame (after
\* at least one byte of the frame), BIND, connect failure, successful connect.
C1_ListedTermination ==
    \/ result \in {"InvalidVersion", "UnsupportedCommandByte", "UserIdTooLong",
                   "UnsupportedCommand", "ConnectError", "Ok"}
    \/ result = "UnexpectedEof" /\ reqConsumed > 0

\* C1 as stated: in negotiated mode every session that has terminated, for
\* any of the listed reasons, has written a response frame to the client.
C1_EveryTerminationFramed ==
    (Negotiated /\ pc = "Done" /\ C1_ListedTermination) => FrameComplete

\* C1 as amended: in negotiated mode a session that terminates after its
\* request was decoded (BIND, connect failure, successful connect) has called
\* write_to exactly once and, unless a write to the client failed, has put a
\* complete 8-byte response frame on the wire; a session that terminates on a
\* failed decode has written nothing to the client.
C1_ResponseAfterDecode ==
    (Negotiated /\ pc = "Done") =>
        IF result \in DecodeErrors
        THEN responses = 0 /\ clientOut = <<>>
        ELSE /\ responses = 1
             /\ IsPrefix(Frame, EncodeResponse(resp))
             /\ flushed => FrameComplete
             /\ ~flushed => result \in {"ConnectError", "WriteError"}

C1_Witness ==
    /\ Negotiated /\ pc = "Done"
    /\ result = "UnsupportedCommand"
    /\ FrameComplete

\* C2: in negotiated mode at most one response frame is written, and no
\* payload byte reaches the server or the client, nor does forwarding start,
\* before that frame is completely written and flushed.
C2_OneResponseBeforePayload ==
    Negotiated =>
        /\ responses <= 1
        /\ frameLen <= 8
        /\ (serverIn # <<>> \/ PayloadToClient # <<>> \/ fwdStarted
              \/ clientPos > reqConsumed)
             => (flushed /\ FrameComplete)

C2_Witness ==
    /\ Negotiated
    /\ serverIn # <<>> /\ PayloadToClient # <<>>
    /\ responses = 1 /\ FrameComplete

\* C3: in negotiated mode, if a GRANTED response is being written or its
\* status byte is on the wire, the outbound connection was established.
C3_GrantedOnlyConnected ==
    (Negotiated /\ (StatusWritten(SOCKS4_REQUEST_GRANTED)
                      \/ resp.status = SOCKS4_REQUEST_GRANTED))
        => (connected /\ connectAttempts = 1 /\ after = "granted")

C3_Witness ==
    /\ Negotiated /\ StatusWritten(SOCKS4_REQUEST_GRANTED) /\ FrameComplete
    /\ connected

\* C4: once a REJECTED response is being written or its status byte is on
\* the wire, the session is on its way out and never forwards: the relay is
\* not running and no payload byte has moved.
C4_RejectedNeverForwards ==
    (StatusWritten(SOCKS4_REQUEST_REJECTED) \/ resp.status = SOCKS4_REQUEST_REJECTED)
        => /\ ~fwdStarted
           /\ pc \in {"WriteVn", "WriteStatus", "WritePort", "WriteIp", "WriteFlush",
                      "Done"}
           /\ after \in {"bind", "connect_err"}
           /\ serverIn = <<>> /\ PayloadToClient = <<>>
           /\ (pc = "Done" => result # "Ok")

C4_Witness ==
    /\ StatusWritten(SOCKS4_REQUEST_REJECTED) /\ FrameComplete
    /\ pc = "Done"
    /\ clientIn # <<>> /\ clientPos < Len(clientIn)

\* C5: in negotiated mode a session whose request decoded with a command
\* other than CONNECT ends with UnsupportedCommand, after one failure
\* response and without an outbound connection attempt.
C5_BindRejected ==
    (Negotiated /\ pc = "Done" /\ after = "bind") =>
        /\ result = "UnsupportedCommand"
        /\ responses = 1 /\ resp = Failure
        /\ connectAttempts = 0

\* C6: in negotiated mode, after a failed connect the session writes one
\* rejection frame (all of it unless the write to the client fails), makes
\* no second connect attempt, forwards nothing, returns the connect error
\* and releases the client socket.
C6_ConnectFailure ==
    (Negotiated /\ "connect" \in errlog) =>
        /\ connectAttempts = 1 /\ ~connected
        /\ responses = 1 /\ resp = Failure /\ after = "connect_err"
        /\ clientOut = Frame /\ IsPrefix(Frame, EncodeResponse(Failure))
        /\ flushed => clientOut = EncodeResponse(Failure)
        /\ serverIn = <<>> /\ ~fwdStarted /\ clientPos = reqConsumed
        /\ pc = "Done" => (result = "ConnectError" /\ ~clientOpen /\ ~serverOpen)

C6_Witness ==
    /\ Negotiated /\ pc = "Done" /\ "connect" \in errlog
    /\ result = "ConnectError"
    /\ clientOut = EncodeResponse(Failure)
    /\ clientPos < Len(clientIn)

\* C7: a fault while writing a failure frame is swallowed: the session that
\* wrote it after a failed connect returns the connect error, the session
\* that wrote it for a non-CONNECT command returns UnsupportedCommand.
C7_RejectionWriteFaultSwallowed ==
    (pc = "Done" /\ ~flushed) =>
        /\ after = "connect_err" => result = "ConnectError"
        /\ after = "bind" => result = "UnsupportedCommand"

\* C8: a session that fails in the handshake or the connect stage (failed
\* decode, non-CONNECT command, failed connect, failed response write) has
\* forwarded nothing: no byte reached a server, the client got at most one
\* response frame of at most 8 bytes and nothing else, and no client byte
\* after the request was even read.
C8_FailedSessionForwardsNothing ==
    /\ (pc = "Done" /\ result # "Ok") =>
          /\ ~fwdStarted /\ fwd = FwdIdle
          /\ serverIn = <<>> /\ serverPos = 0
          /\ clientPos = reqConsumed
          /\ responses <= 1
          /\ clientOut = Frame /\ frameLen <= 8
          /\ responses = 0 => clientOut = <<>>
          /\ responses = 1 => IsPrefix(clientOut, EncodeResponse(resp))
    /\ (Negotiated /\ ~flushed) =>
          /\ serverIn = <<>> /\ PayloadToClient = <<>>
          /\ clientPos = reqConsumed /\ serverPos = 0

C8_Witness ==
    /\ Negotiated /\ pc = "Done" /\ result = "WriteError" /\ after = "granted"
    /\ connected
    /\ clientPos < Len(clientIn)
    /\ serverIn = <<>>

\* C9: a Direct session exchanges no handshake frame: it reads no request,
\* calls write_to on no path, dials the configured address, and whatever
\* reaches the destination is the client's stream from its first byte on.
C9_DirectNoHandshake ==
    mode.kind = "Direct" =>
        /\ reqConsumed = 0 /\ request = NoRequest
        /\ responses = 0 /\ frameLen = 0 /\ resp = NoResponse
        /\ pc \in {"Start", "Connect", "Forwarding", "Done"}
        /\ pc # "Start" => target = mode.addr
        /\ IsPrefix(serverIn, clientIn)
        /\ IsPrefix(clientOut, serverOut)
        /\ (pc = "Done" /\ ~connected) => (result = "ConnectError" /\ clientOut = <<>>)

C9_Witness ==
    /\ mode.kind = "Direct" /\ pc = "Done" /\ connected
    /\ Len(clientIn) > 1 /\ clientIn[1] = SOCKS4_VERSION
    /\ serverIn = clientIn

\* C10: under a negotiated (SOCKS4) configuration every task the listener
\* spawns writes a response frame to its client before it forwards any byte
\* to a destination.
C10_SpawnedSessionsHandshake ==
    config.mode.kind = "Socks4" =>
        \A i \in DOMAIN sess :
            sess[i].serverIn # <<>> =>
                /\ Len(sess[i].clientOut) >= 8
                /\ sess[i].clientOut[1] = SOCKS4_REPLY_VERSION
                /\ sess[i].clientOut[2] = SOCKS4_REQUEST_GRANTED

\* C11: when forward_data returns Ok (its source reached EOF and no read,
\* write or flush failed), what it wrote to the writer is the source's
\* content, byte for byte and in order, all of it read and flushed.
C11_ForwardDataCopies ==
    fdResult = "Ok" =>
        /\ fdWriter = fdReader
        /\ fdPos = Len(fdReader)
        /\ fdDirty = 0

C11_Witness ==
    /\ fdResult = "Ok"
    /\ Len(fdReader) = BUFFER_SIZE + 1
    /\ fdWriter = fdReader

\* Bytes forward_data has read from its source and not yet both written to
\* the writer and flushed.
FdInFlight == fdPos - (Len(fdWriter) - fdDirty)

\* C17: forward_data issues a read only when every chunk read before is
\* completely written and flushed, and at no time is more than one chunk
\* (1..4096 bytes) in flight.
C17_ChunkFlushedBeforeNextRead ==
    /\ FdInFlight <= BUFFER_SIZE
    /\ fdSt = "read" =>
          /\ fdDirty = 0
          /\ Len(fdWriter) = fdPos
          /\ FdInFlight = 0
    /\ fdSt \in {"write", "flush"} =>
          /\ Len(fdBuf) \in 1..BUFFER_SIZE
          /\ FdInFlight = Len(fdBuf)

C17_Witness ==
    /\ fdSt = "read"
    /\ fdPos = BUFFER_SIZE
    /\ Len(fdReader) = BUFFER_SIZE + 1
    /\ fdDirty = 0

\* The states of a direction that has not returned.
Running == {"read", "write", "flush"}

\* C12: as soon as a direction reads EOF the relay is over: the session is
\* Done with Ok, the client socket and the server socket are closed, and
\* the other direction was not awaited: it stands where it was, in a read
\* or with a chunk it had not finished writing. While the relay runs no
\* direction has returned.
C12_FirstEofEndsRelay ==
    /\ pc = "Forwarding" =>
          /\ \A d \in Dirs : fwd[d].st \in Running
          /\ clientOpen /\ serverOpen
    /\ \A d \in Dirs :
          fwd[d].st = "eof" =>
              /\ pc = "Done"
              /\ result = "Ok"
              /\ ~clientOpen /\ ~serverOpen
              /\ \A e \in Dirs \ {d} : fwd[e].st \in Running

C12_Witness ==
    /\ pc = "Done"
    /\ fwd["c2s"].st = "eof"
    /\ fwd["s2c"].st = "write"
    /\ fwd["s2c"].buf # <<>>
    /\ Len(PayloadToClient) < Len(serverOut)
    /\ ~clientOpen /\ ~serverOpen

\* The client's first byte is there and is not the SOCKS4 version.
WrongVersionSent == Negotiated /\ clientIn # <<>> /\ clientIn[1] # SOCKS4_VERSION

\* C13: when the first byte of the request is not 0x04, read_from never
\* takes a second byte from the stream, and once it has read that byte the
\* session is over with the version mismatch (before it, only a failed read
\* can end the session, with nothing consumed).
C13_VersionMismatchOneByte ==
    WrongVersionSent =>
        /\ reqConsumed <= 1 /\ clientPos = reqConsumed
        /\ pc \in {"Start", "ReadVersion", "Done"}
        /\ reqConsumed = 1 =>
              /\ pc = "Done"
              /\ result = "InvalidVersion"
              /\ version = clientIn[1]
        /\ (pc = "Done" /\ reqConsumed = 0) => result = "IoError"
        /\ request = NoRequest /\ responses = 0 /\ connectAttempts = 0

C13_Witness ==
    /\ WrongVersionSent
    /\ Len(clientIn) > 1
    /\ pc = "Done"
    /\ result = "InvalidVersion"
    /\ clientPos = 1

\* The client stream after the 8 bytes of the request header.
AfterHeader == Drop(clientIn, 8)

\* Where the NULs of AfterHeader are.
Nuls == { i \in 1..Len(AfterHeader) : AfterHeader[i] = 0 }

\* How many non-zero bytes follow the header before the first NUL (or the
\* end of the stream).
UserIdRun ==
    IF Nuls = {} THEN Len(AfterHeader)
    ELSE (CHOOSE i \in Nuls : \A j \in Nuls : i <= j) - 1

\* read_from is still reading.
Decoding ==
    pc \in {"Start", "ReadVersion", "ReadCommand", "ReadPort", "ReadIp", "ReadUserId"}

\* read_from returned Ok(request).
Decoded == ~Decoding /\ result \notin DecodeErrors

\* C14: after a well-formed header read_from accepts every user id of 0..256
\* non-zero bytes closed by a NUL (the decoded user id is those bytes),
\* refuses with UserIdTooLong exactly when a 257th non-zero byte arrives
\* before any NUL, and never holds more than 257 user id bytes.
C14_UserIdLimit ==
    /\ Len(request.userid) <= USERID_LIMIT + 1
    /\ reqConsumed <= 8 + USERID_LIMIT + 1
    /\ result = "UserIdTooLong" =>
          /\ UserIdRun > USERID_LIMIT
          /\ Len(request.userid) = USERID_LIMIT + 1
          /\ reqConsumed = 8 + USERID_LIMIT + 1
    /\ Decoded =>
          /\ UserIdRun <= USERID_LIMIT
          /\ request.userid = SubSeq(AfterHeader, 1, UserIdRun)
    /\ (~Decoding /\ UserIdRun <= USERID_LIMIT /\ Nuls # {}) =>
          Decoded \/ result = "IoError"
    /\ (~Decoding /\ UserIdRun > USERID_LIMIT) =>
          result \in {"UserIdTooLong", "IoError"}

C14_Witness ==
    /\ Decoded
    /\ Len(request.userid) = USERID_LIMIT
    /\ UserIdRun = USERID_LIMIT

\* C15: for a CONNECT request that decodes and whose connect succeeds, the
\* frame write_to puts on the wire from Success(destination_addr()) is
\* 8 bytes: reply version 0x00, status 0x5A, then the request's own port
\* bytes (offsets 2..3) and IPv4 bytes (offsets 4..7).
C15_DestinationRoundTrip ==
    /\ (Decoded /\ request.command = SOCKS4_CONNECT) =>
          EncodeResponse(Success(DestinationAddr(request)))
              = <<SOCKS4_REPLY_VERSION, SOCKS4_REQUEST_GRANTED>>
                  \o SubSeq(clientIn, 3, 8)
    /\ (Negotiated /\ after = "granted" /\ flushed) =>
          /\ frameLen = 8
          /\ Frame = <<SOCKS4_REPLY_VERSION, SOCKS4_REQUEST_GRANTED>>
                       \o SubSeq(clientIn, 3, 8)

C15_Witness ==
    /\ Negotiated /\ after = "granted" /\ flushed
    /\ SubSeq(clientIn, 3, 4) = <<31, 144>>
    /\ SubSeq(clientIn, 5, 8) = <<127, 0, 0, 1>>
    /\ Frame = <<0, 90, 31, 144, 127, 0, 0, 1>>

\* The directions that have returned.
Returned == { d \in Dirs : fwd[d].st \in {"eof", "failed"} }

\* C16: once forward_traffic has been entered the session is forwarding or
\* over, with the one connect and the one response (none in Direct mode) it
\* had before; when it is over, it is over with Ok, whichever direction
\* returned and whether at EOF or on a fault, exactly one direction has
\* returned, and a fault is in the log and nowhere else.
C16_RelayEndsWithSuccess ==
    fwdStarted =>
        /\ pc \in {"Forwarding", "Done"}
        /\ connected /\ connectAttempts = 1
        /\ responses = IF Negotiated THEN 1 ELSE 0
        /\ pc = "Forwarding" => result = "none" /\ Returned = {}
        /\ pc = "Done" =>
              /\ result = "Ok"
              /\ ~clientOpen /\ ~serverOpen
              /\ Cardinality(Returned) = 1
              /\ errlog = { d \in Dirs : fwd[d].st = "failed" }

C16_Witness ==
    /\ fwdStarted /\ pc = "Done"
    /\ fwd["s2c"].st = "failed"
    /\ serverPos > 0
    /\ errlog = {"s2c"}
    /\ result = "Ok"

\* The IPv4 address and port that the bytes of the client's request carry.
Requested == V4(SubSeq(clientIn, 5, 8), clientIn[3] * 256 + clientIn[4])

\* C18: in Socks4 mode the address the session dials is the IPv4 address
\* and port of the decoded CONNECT request, and the response written after
\* a successful connect is GRANTED with that address and port: the
\* REJECTED fallback of the conversion is never the response there.
C18_DialledIsRequested ==
    Negotiated =>
        /\ target # NoAddr => target = Requested /\ request.command = SOCKS4_CONNECT
        /\ connectAttempts > 0 => target = Requested
        /\ after = "granted" =>
              /\ connected
              /\ TryFromSocketAddr(target).ok
              /\ resp = Success(Requested)
              /\ resp.status = SOCKS4_REQUEST_GRANTED
              /\ frameLen >= 2 => clientOut[2] = SOCKS4_REQUEST_GRANTED
              /\ flushed => Frame = EncodeResponse(Success(Requested))

C18_Witness ==
    /\ Negotiated /\ after = "granted" /\ flushed
    /\ target = V4(<<255, 255, 255, 255>>, 65535)
    /\ resp = Success(target)

\* What direction d has read from its source: the client's bytes after the
\* request, the server's bytes.
ReadBy(d) ==
    IF d = "c2s" THEN SubSeq(clientIn, reqConsumed + 1, clientPos)
    ELSE SubSeq(serverOut, 1, serverPos)

\* What direction d has delivered to its sink.
Delivered(d) == IF d = "c2s" THEN serverIn ELSE PayloadToClient

\* The sink holds a prefix of what was read: all of it when the direction
\* is between chunks or at EOF, all but the chunk in hand when it is about
\* to write it.
DeliveredIsPrefix ==
    \A d \in Dirs :
        /\ IsPrefix(Delivered(d), ReadBy(d))
        /\ fwd[d].st \in {"idle", "read", "flush", "eof"} => Delivered(d) = ReadBy(d)
        /\ fwd[d].st = "write" => Delivered(d) \o fwd[d].buf = ReadBy(d)

\* A step only appends to a sink, and appends nothing for a direction that
\* failed or once the session is over.
DeliveredOnlyGrows ==
    \A d \in Dirs :
        /\ IsPrefix(Delivered(d), Delivered(d)')
        /\ (fwd[d].st = "failed" \/ pc = "Done") => Delivered(d)' = Delivered(d)

\* C20: in every state, also after a read fault, a write fault or the
\* other direction ending the relay, what a direction delivered to its sink
\* is a prefix of what it read from its source (nothing duplicated,
\* reordered or inserted), and a direction that failed writes nothing more.
C20_SinkIsPrefixOfSource ==
    []DeliveredIsPrefix /\ [][DeliveredOnlyGrows]_vars

C20_Witness ==
    /\ pc = "Done"
    /\ fwd["c2s"].st = "failed"
    /\ Delivered("c2s") # <<>>
    /\ Delivered("c2s") # ReadBy("c2s")
    /\ fwd["s2c"].st = "write"

\* The listener takes the next connection whatever its tasks are doing.
AcceptNeverWaits ==
    (listener = "listening" /\ accepted < MaxSessions) => ENABLED Accept

\* A step of a task (its failure included) changes that task alone: every
\* other task, the configuration and the listener stay as they are, and no
\* step of the listener changes a task it has spawned.
TaskStepIsolated ==
    /\ config' = config
    /\ Len(sess') >= Len(sess)
    /\ \A i \in DOMAIN sess :
          sess'[i] # sess[i] =>
              /\ \A j \in DOMAIN sess \ {i} : sess'[j] = sess[j]
              /\ Len(sess') = Len(sess)
              /\ listener' = listener /\ accepted' = accepted
              /\ sess'[i].pc = "Done" /\ sess'[i].result # "Ok"
                    => "task" \in sess'[i].logged

\* C19: with several tasks running under the listener, the failure of one
\* (a failed connect, or a relay fault) is logged and changes neither
\* another task, nor the configuration, nor the listener, which goes on
\* accepting without waiting for any task to finish.
C19_SessionsIsolated ==
    []AcceptNeverWaits /\ [][TaskStepIsolated]_vars

C19_Witness ==
    /\ Len(sess) >= 2
    /\ sess[1].pc = "Done" /\ sess[1].result = "ConnectError"
    /\ sess[2].pc = "Forwarding" /\ sess[2].fwd["s2c"].st = "write"
    /\ listener = "listening"

\* Where the client stream stands after a request with the decoded user id:
\* the 8 bytes of the header, the user id and its NUL.
RequestEnd == 8 + Len(request.userid) + 1

\* C21: a read_from that succeeded took exactly 8 + len(userid) + 1 bytes
\* off the client stream, the last of them the first NUL after the header,
\* and the user id it decoded is the bytes before that NUL, none of them
\* NUL. Until the relay starts nothing else is taken off the stream; what
\* the client sent after the NUL is what the client-to-server direction
\* reads and delivers to the server, from the first byte on, unchanged and
\* in order.
C21_DecodeLeavesPayload ==
    Negotiated =>
        /\ ~fwdStarted => clientPos = reqConsumed /\ serverIn = <<>>
        /\ Decoded =>
              /\ reqConsumed = RequestEnd
              /\ clientIn[RequestEnd] = 0
              /\ request.userid = SubSeq(clientIn, 9, RequestEnd - 1)
              /\ \A i \in 1..Len(request.userid) : request.userid[i] # 0
        /\ fwdStarted =>
              /\ Decoded
              /\ clientPos >= RequestEnd
              /\ IsPrefix(serverIn, Drop(clientIn, RequestEnd))
              /\ fwd["c2s"].st \in {"read", "flush", "eof"} =>
                    serverIn = SubSeq(clientIn, RequestEnd + 1, clientPos)
              /\ fwd["c2s"].st = "write" =>
                    serverIn \o fwd["c2s"].buf
                        = SubSeq(clientIn, RequestEnd + 1, clientPos)

C21_Witness ==
    /\ Negotiated /\ fwdStarted
    /\ Len(request.userid) > 0
    /\ Len(clientIn) > RequestEnd + 1
    /\ serverIn = Drop(clientIn, RequestEnd)
    /\ fwd["c2s"].st = "eof"
====
